---- MODULE Spec2Model ----
(***************************************************************************)
(* Direct-API post/reply pipeline of the X posts bot: credential store,    *)
(* CSRF (ct0) acquisition through a headless browser, request assembly,    *)
(* the remote CreateTweet call and the interpretation of its response.     *)
(***************************************************************************)
EXTENDS Integers, Sequences, FiniteSets, TLC

\* JavaScript null / undefined, and a file that does not exist.
NULL == "<null>"

\* ------------------------------------------------------------------------
\* Input domains
\* ------------------------------------------------------------------------

\* HTTP requests that reach createDirectPost / replyDirectToPost.
Callers == {"c1"}

\* Two requests served at the same time.
ConcurrentCallers == {"c1", "c2"}

\* Number of distinct session tokens (auth_token cookie values) that logins
\* capture over the life of the deployment.
MaxTokens == 2

TokenNames == <<"abc", "tok2", "tok3", "tok4">>

Tokens == {TokenNames[i] : i \in 1..MaxTokens}

\* Session identifiers (guest_id cookie values).
GuestIds == {"g1"}

\* Tweet ids the remote endpoint may report.
RestIds == {"555"}

\* HTTP statuses the remote endpoint answers with.
Statuses == {200, 403, 500}

\* Target URLs, as sequences of lexical pieces: "/status/" is the literal
\* path segment, "1" and "2" are digits, "x" is any other text.
Digits == {"1", "2"}

UrlInputs ==
  { <<"x">>,                         \* "not a url"
    <<"x", "/status/">>,             \* https://site/user/status/
    <<"x", "/status/", "x", "1">>,   \* https://site/user/status/abc1
    <<"x", "/status/", "1">>,        \* https://site/user/status/1
    <<"/status/", "1", "2", "x">> }  \* /status/12?s=20

\* The CSRF cookie the site sets in a browsing context authenticated by
\* session token t.
Ct0Of(t) ==
  CASE t = "abc" -> "csrf1"
    [] t = "tok2" -> "csrf2"
    [] t = "tok3" -> "csrf3"
    [] t = "tok4" -> "csrf4"
    [] OTHER -> "csrf0"

Ct0Values == {Ct0Of(t) : t \in Tokens}

\* ------------------------------------------------------------------------
\* State
\* ------------------------------------------------------------------------
VARIABLES
  authTokenFile,   \* data/auth_token.txt
  rootTokenFile,   \* ./auth_token.txt (fallback location)
  guestIdFile,     \* data/guest_id.txt
  ct0File,         \* data/ct0.txt
  cookiesFile,     \* data/cookies.json: the ct0 cookie of the saved jar
  login,           \* manualLogin / automatedLogin in progress
  calls,           \* per caller: position and locals of the direct call
  browsers,        \* per caller: the browser its CSRF acquisition launched
  sent,            \* CreateTweet requests sent to the remote endpoint
  launches,        \* puppeteer.launch calls made by CSRF acquisitions
  randomDraws,     \* crypto.randomBytes calls made so far
  xpffLog,         \* generateXPFF calls: argument, clock reading, output
  decoded,         \* the last decodeXPFF call: arguments and output
  browserInstance, \* xService.js: the shared browser (0 = null)
  currentSession,  \* xService.js: the page of the shared session (0 = null)
  sessionValid,    \* xService.js: the shared login flag
  xPages,          \* xService.js: pages created so far and whether closed
  xBrowsers,       \* xService.js: browsers launched so far, running or closed
  xRequests,       \* xService.js: per request, position and local page
  apiRequests,     \* index.js: requests to /api, what the middleware did
  loginNav,        \* loginToX: the navigation loop of the call in progress
  routeAnswers,    \* postingRoutes.js: the HTTP answer each request was given
  poll,            \* manualLogin / getAuthToken: the cookie polling loop
  sessionStore     \* sessionManager.js: data/session.json, the clock, the calls

storeVars == <<authTokenFile, rootTokenFile, guestIdFile, ct0File, cookiesFile>>

\* The generateXPFF / decodeXPFF calls made outside the posting pipeline.
xpffVars == <<xpffLog, decoded>>

\* The browser-automation service (xService.js).
xVars == <<browserInstance, currentSession, sessionValid, xPages, xBrowsers,
           xRequests>>

\* The direct-API pipeline and the credential store.
directVars == <<storeVars, login, calls, browsers, sent, launches>>

\* State of the parts that neither the direct calls, nor the fingerprint
\* functions, nor the browser-automation service touch.
otherVars == <<apiRequests, loginNav, routeAnswers, poll, sessionStore>>

vars == <<directVars, randomDraws, xpffVars, xVars, otherVars>>

\* JavaScript truthiness of a string-or-null value.
Truthy(v) == v \notin {NULL, ""}


\* ------------------------------------------------------------------------
\* Pure helpers
\* ------------------------------------------------------------------------

\* postUrl.match(/\/status\/(\d+)/): positions where the literal segment is
\* directly followed by a digit.
MatchPositions(url) ==
  { i \in 1..(Len(url) - 1) : url[i] = "/status/" /\ url[i + 1] \in Digits }

\* The pattern without its digits, /\/status\// (variant of UrlMatches).
UrlMatches_NoDigits(url) == \E i \in 1..Len(url) : url[i] = "/status/"

UrlMatches(url) == MatchPositions(url) # {}

\* The greedy digit run (\d+) starting at position i of url.
RECURSIVE DigitRun(_, _)
DigitRun(url, i) ==
  IF i > Len(url) \/ url[i] \notin Digits
  THEN <<>>
  ELSE <<url[i]>> \o DigitRun(url, i + 1)

\* tweetIdMatch[1]: the capture group of the leftmost match.
ExtractTweetId(url) ==
  IF MatchPositions(url) = {}
  THEN <<>>
  ELSE LET first == CHOOSE i \in MatchPositions(url) :
                      \A j \in MatchPositions(url) : i <= j
       IN DigitRun(url, first + 1)

\* The tweet id turned into a number before it goes into the body (variant
\* of TweetIdString).
TweetIdString_ParsedNumber(url) == [type |-> "number", text |-> ExtractTweetId(url)]

\* tweetId.toString() of a regex capture group: a JavaScript string.
TweetIdString(url) == [type |-> "string", text |-> ExtractTweetId(url)]

\* JSON.stringify of a string or a number value: a string goes between
\* double quotes, a number is written bare.
JsonStringify(value) ==
  IF value.type = "string"
  THEN <<"\"">> \o value.text \o <<"\"">>
  ELSE value.text

\* getAuthToken(): data/auth_token.txt first, ./auth_token.txt as fallback;
\* NULL stands for the thrown 'Failed to read auth_token.txt'.
ReadAuthToken(dataFile, rootFile) ==
  IF dataFile # NULL THEN dataFile
  ELSE IF rootFile # NULL THEN rootFile
  ELSE NULL

\* The key material generateXPFF derives its AES key from: baseKey + guestId,
\* where string concatenation renders a missing guestId as "undefined".
XpffKey(guestId) == IF guestId = NULL THEN "undefined" ELSE guestId

\* ------------------------------------------------------------------------
\* X-Xp-Forwarded-For header: generateXPFF / decodeXPFF (xpffGenerator)
\* ------------------------------------------------------------------------

\* Length in bytes of the AES-GCM nonce and of the authentication tag.
NonceLen == 12
TagLen == 16

\* A byte holds 0..255; a hex digit 0..15.
ByteMod == 256
HexMod == 16

\* Clock readings (Date.now()) a generateXPFF call may see.
Times == {1, 2}

\* Number of generateXPFF calls made outside the posting pipeline.
MaxEncrypts == 2

Min(a, b) == IF a < b THEN a ELSE b
Max(a, b) == IF a > b THEN a ELSE b

RECURSIVE SumSeq(_)
SumSeq(q) == IF q = <<>> THEN 0 ELSE Head(q) + SumSeq(Tail(q))

\* q cut or zero-filled to n elements.
Pad(q, n) == [i \in 1..n |-> IF i <= Len(q) THEN q[i] ELSE 0]

\* The generator hands out the same bytes on every call (variant of
\* RandomBytes).
RandomBytes_Constant(n, k) == [i \in 1..n |-> 0]

\* crypto.randomBytes(n), the k-th call made by the process: a
\* cryptographic generator, taken never to return the same n bytes twice
\* (k < 256).
RandomBytes(n, k) == [i \in 1..n |-> IF i = n THEN k ELSE 0]

\* SHA-256(baseKey + guestId): the derived AES key, one per combined string.
DeriveKey(guestId) ==
  LET combined == XpffKey(guestId)
  IN CASE combined = "g1" -> 1
       [] combined = "g2" -> 2
       [] combined = "undefined" -> 3
       [] OTHER -> 0

\* JSON.stringify({navigator_properties, created_at: Date.now()}) as UTF-8
\* bytes: the fixed part shrunk to its braces, the timestamp to one byte.
Payload(now) == <<123, now, 125>>

\* The i-th keystream byte of AES-256 in counter mode under key and nonce.
Keystream(key, nonce, i) == (key * 31 + SumSeq(nonce) + i) % ByteMod

\* cipher.update(payload) + cipher.final(): counter mode adds the keystream.
GcmEncrypt(key, nonce, plain) ==
  [i \in 1..Len(plain) |-> (plain[i] + Keystream(key, nonce, i)) % ByteMod]

\* The keystream of the wrong position is taken off (variant of GcmDecrypt).
GcmDecrypt_ShiftedKeystream(key, nonce, ct) ==
  [i \in 1..Len(ct) |-> (ct[i] + ByteMod - Keystream(key, nonce, i + 1)) % ByteMod]

\* decipher.update(ciphertext): counter mode takes the keystream off again.
GcmDecrypt(key, nonce, ct) ==
  [i \in 1..Len(ct) |-> (ct[i] + ByteMod - Keystream(key, nonce, i)) % ByteMod]

\* cipher.getAuthTag(): 16 bytes that depend on the key, on every byte of
\* the nonce and on every byte and the length of the ciphertext (injective
\* for ciphertexts of up to 3 bytes, the size of Payload).  Both hex digits
\* of the first byte carry the key, so that no change of one digit turns
\* the tag of one key into the tag of another.
GcmTag(key, nonce, ct) ==
  <<key * 68 + Min(Len(ct), 3)>> \o Pad(nonce, NonceLen) \o Pad(ct, 3)

\* Buffer#toString('hex'): two hex digits per byte.
ToHex(bytes) ==
  [i \in 1..(2 * Len(bytes)) |->
     IF i % 2 = 1 THEN bytes[(i + 1) \div 2] \div HexMod
                  ELSE bytes[i \div 2] % HexMod]

\* Buffer.from(hex, 'hex'): one byte per pair, a trailing odd digit dropped.
FromHex(hex) ==
  [i \in 1..(Len(hex) \div 2) |-> hex[2 * i - 1] * HexMod + hex[2 * i]]

\* Buffer#subarray(start, end): negative indexes count from the end, both
\* are clamped to the buffer, an empty range gives an empty buffer.
Subarray(buf, start, end) ==
  LET norm(i) == IF i < 0 THEN Max(Len(buf) + i, 0) ELSE Min(i, Len(buf))
  IN IF norm(end) <= norm(start) THEN <<>>
     ELSE SubSeq(buf, norm(start) + 1, norm(end))

\* generateXPFF(guestId) on the k-th randomBytes call at clock reading now:
\* hex(nonce + ciphertext + tag).  cryptoOk is whether the crypto calls in
\* the try block go through (randomBytes throws when the system's random
\* source fails); when one throws, the catch block returns "", the empty
\* string.
GenerateXPFF(guestId, k, now, cryptoOk) ==
  IF ~cryptoOk
  THEN <<>>
  ELSE LET derivedKey == DeriveKey(guestId)
           nonce == RandomBytes(NonceLen, k)
           encrypted == GcmEncrypt(derivedKey, nonce, Payload(now))
           authTag == GcmTag(derivedKey, nonce, encrypted)
       IN ToHex(nonce \o encrypted \o authTag)

\* What decodeXPFF returns: the decrypted text, or null from its catch block.
DecodedText(bytes) == [null |-> FALSE, text |-> bytes]
DecodedNull == [null |-> TRUE, text |-> <<>>]

\* decodeXPFF(xpffHex, guestId): nonce = first 12 bytes, tag = last 16,
\* ciphertext = the bytes between; createDecipheriv refuses an empty nonce,
\* setAuthTag / final() refuse a tag that does not verify.
DecodeXPFF(xpffHex, guestId) ==
  LET derivedKey == DeriveKey(guestId)
      buffer == FromHex(xpffHex)
      nonce == Subarray(buffer, 0, NonceLen)
      authTag == Subarray(buffer, Len(buffer) - TagLen, Len(buffer))
      ciphertext == Subarray(buffer, NonceLen, Len(buffer) - TagLen)
  IN IF nonce = <<>> THEN DecodedNull
     ELSE IF authTag # GcmTag(derivedKey, nonce, ciphertext) THEN DecodedNull
     ELSE DecodedText(GcmDecrypt(derivedKey, nonce, ciphertext))

\* ------------------------------------------------------------------------
\* Remote responses and their interpretation
\* ------------------------------------------------------------------------

\* response.data: a parsed JSON object, of which only the two inspected
\* places matter (rest_id at data.create_tweet.tweet_results.result and the
\* top-level errors array), or a non-object payload (an HTML error page).
Bodies ==
  {[kind |-> "text", rest_id |-> NULL, errors |-> NULL]} \cup
  {[kind |-> "object", rest_id |-> r, errors |-> e] :
      r \in {NULL, ""} \cup RestIds, e \in {NULL, "[]", "[e]"}}

\* No response received (yet).
NoBody == [kind |-> "none", rest_id |-> NULL, errors |-> NULL]

\* The identifier is read at a path the response does not have (variant of
\* RestIdAt).
RestIdAt_WrongPath(body) == NULL

\* response.data?.data?.create_tweet?.tweet_results?.result?.rest_id
RestIdAt(body) == IF body.kind = "object" THEN body.rest_id ELSE NULL

\* response.data?.errors
ErrorsAt(body) == IF body.kind = "object" THEN body.errors ELSE NULL

\* What an async function settles with.
Return(v) == [kind |-> "return", value |-> v, error |-> NULL]
Throw(msg) == [kind |-> "throw", value |-> [none |-> TRUE], error |-> msg]

NoResult == [none |-> TRUE]

\* A 200 answer counts as a success whenever it has no errors array, with or
\* without an identifier (variant of Analysis).
Analysis_Any200(status, body) ==
  LET idFound == status = 200 /\ Truthy(RestIdAt(body))
  IN [success |-> status = 200 /\ ~Truthy(ErrorsAt(body)),
      id      |-> IF idFound THEN RestIdAt(body) ELSE NULL]

\* The identifier is looked for whatever the status (variant of Analysis).
Analysis_IgnoreStatus(status, body) ==
  LET idFound == Truthy(RestIdAt(body))
  IN [success |-> idFound /\ ~(status = 200 /\ Truthy(ErrorsAt(body))),
      id      |-> IF idFound THEN RestIdAt(body) ELSE NULL]

\* The errors array is not looked at (variant of Analysis).
Analysis_NoErrorsCheck(status, body) ==
  LET idFound == status = 200 /\ Truthy(RestIdAt(body))
  IN [success |-> idFound,
      id      |-> IF idFound THEN RestIdAt(body) ELSE NULL]

\* The success/failure analysis both route-wired functions run on the
\* response: on a 200 the identifier is extracted and sets success, then an
\* errors array clears success again (the identifier stays).
Analysis(status, body) ==
  LET idFound == status = 200 /\ Truthy(RestIdAt(body))
  IN [success |-> idFound /\ ~(status = 200 /\ Truthy(ErrorsAt(body))),
      id      |-> IF idFound THEN RestIdAt(body) ELSE NULL]

\* Every non-200 answer is thrown, as the 403-fix functions do (variant of
\* InterpretPost).
InterpretPost_ThrowOnNon200(status, body) ==
  LET a == Analysis(status, body)
  IN IF status # 200
     THEN Throw("failed with status")
     ELSE Return([success |-> a.success,
                  tweetId |-> a.id,
                  message |-> IF a.success THEN "Post published successfully"
                                           ELSE "Failed to post",
                  status  |-> status,
                  data    |-> body])

\* createDirectPost of goStyleDirectApiFix.js: the returned object.
InterpretPost(status, body) ==
  LET a == Analysis(status, body)
  IN Return([success |-> a.success,
             tweetId |-> a.id,
             message |-> IF a.success THEN "Post published successfully"
                                      ELSE "Failed to post",
             status  |-> status,
             data    |-> body])

\* replyDirectToPost of goStyleDirectApiFix.js: the returned object.
InterpretReply(status, body, tweetIdString) ==
  LET a == Analysis(status, body)
  IN Return([success |-> a.success,
             replyTweetId |-> a.id,
             originalTweetId |-> tweetIdString,
             message |-> IF a.success THEN "Reply published successfully"
                                      ELSE "Failed to reply",
             status  |-> status,
             data    |-> body])

\* createDirectPost / replyDirectToPost of the 403-fix variant: a 403 and
\* every other non-200 status are thrown, a 200 is returned as a success
\* whatever its body (the timestamp field is left out).
InterpretFix403(status, body, op) ==
  IF status = 403
  THEN Throw("failed with 403 Forbidden - Auth error")
  ELSE IF status = 200
  THEN Return([success  |-> TRUE,
               message  |-> IF op = "post"
                            THEN "Post published successfully via direct API"
                            ELSE "Reply published successfully via direct API",
               response |-> body])
  ELSE Throw("failed with status")

\* The created-resource identifier a result carries (NULL when the result
\* has no identifier field at all).
ResultId(r) ==
  IF "tweetId" \in DOMAIN r THEN r.tweetId
  ELSE IF "replyTweetId" \in DOMAIN r THEN r.replyTweetId
  ELSE NULL

\* ------------------------------------------------------------------------
\* Initial state
\* ------------------------------------------------------------------------

IdleCall ==
  [pc |-> "idle", outcome |-> "none", variant |-> NULL, op |-> NULL,
   url |-> <<>>, guestArg |-> NULL, authToken |-> NULL, ct0 |-> NULL,
   status |-> 0, body |-> NoBody, result |-> NoResult, error |-> NULL,
   browser |-> 0, harvest |-> NULL]

\* No decodeXPFF call made yet.
NoDecode == [called |-> FALSE, hex |-> <<>>, guestId |-> NULL, out |-> DecodedNull]

\* Requests to the browser-automation routes.
XRequestIds == {"x1", "x2"}

\* Each request launches at most one browser.
MaxXBrowsers == Cardinality(XRequestIds)

IdleXRequest ==
  [pc |-> "idle", op |-> NULL, browser |-> 0, page |-> 0, outcome |-> "none"]

IdleLogin ==
  [pc |-> "idle", authToken |-> NULL, guestId |-> NULL, ct0 |-> NULL,
   slot |-> 0, open |-> FALSE]

\* res.status(...).json(...) not called yet.
NoAnswer == [http |-> 0, status |-> NULL, message |-> NULL, data |-> NoResult]

\* data/session.json does not exist.
NoSessionFile ==
  [exists |-> FALSE, cookies |-> NULL, expiresAt |-> [day |-> 0, ms |-> 0]]

\* The session manager before its first call: no file, the clock at 0.
\* lastOp and returned are the last call and what it returned; saved and
\* cleared log the last saveSession that returned true and whether a
\* clearSession returned true after it.
NoSessionYet ==
  [file |-> NoSessionFile, now |-> 0, ticks |-> 0,
   lastOp |-> "none", returned |-> NULL,
   saved |-> [any |-> FALSE, data |-> NULL, at |-> 0], cleared |-> FALSE]

\* let maxAttempts = 120
MaxAttempts == 120

\* Neither manualLogin nor getAuthToken called yet.
IdlePoll ==
  [fn |-> NULL, pc |-> "idle", maxAttempts |-> MaxAttempts, polls |-> 0,
   waited |-> 0, authToken |-> NULL, guestId |-> NULL, ct0 |-> NULL,
   success |-> FALSE]

\* loginToX not called yet.
IdleLoginNav ==
  [pc |-> "idle", retries |-> 0, success |-> FALSE, gotos |-> 0,
   delays |-> <<>>, result |-> FALSE, finished |-> <<>>]

\* A fresh deployment serving the callers in who: nothing under data/ yet;
\* the operator may have put an auth_token.txt in the working directory.
InitFor(who) ==
  /\ authTokenFile = NULL
  /\ rootTokenFile \in {NULL, "abc"}
  /\ guestIdFile = NULL
  /\ ct0File = NULL
  /\ cookiesFile = NULL
  /\ login = IdleLogin
  /\ calls = [c \in who |-> IdleCall]
  /\ browsers = [c \in who |-> "none"]
  /\ sent = {}
  /\ launches = 0
  /\ randomDraws = 0
  /\ xpffLog = <<>>
  /\ decoded = NoDecode
  /\ browserInstance = 0
  /\ currentSession = 0
  /\ sessionValid = FALSE
  /\ xPages = <<>>
  /\ xBrowsers = <<>>
  /\ xRequests = [r \in XRequestIds |-> IdleXRequest]
  /\ apiRequests = <<>>
  /\ loginNav = IdleLoginNav
  /\ routeAnswers = [c \in who |-> NoAnswer]
  /\ poll = IdlePoll
  /\ sessionStore = NoSessionYet

Init == InitFor(Callers)

\* ------------------------------------------------------------------------
\* Logins: the operations that replace stored credentials
\* ------------------------------------------------------------------------

\* cookies.json holding a jar that has no ct0 cookie.
NoCt0Jar == "<jar without ct0>"

\* manualLogin / automatedLogin up to their check of the captured tokens:
\* the login page session ends with (or times out without) the auth_token
\* and guest_id cookies, the whole jar is written to cookies.json and the
\* browser is closed.  manualLogin keeps the first ct0 it saw while polling;
\* the jar is read again afterwards.  Without both required tokens the
\* login returns its failure result here and stores nothing more.
LoginCapture(t, g, localCt0, jarCt0) ==
  /\ login.pc = "idle"
  /\ t = NULL => jarCt0 = NULL
  /\ jarCt0 # NULL => jarCt0 = Ct0Of(t)
  /\ localCt0 # NULL => localCt0 = jarCt0
  /\ cookiesFile' = IF jarCt0 = NULL THEN NoCt0Jar ELSE jarCt0
  /\ login' = IF ~Truthy(t) \/ ~Truthy(g)
              THEN IdleLogin
              ELSE [pc |-> "captured", authToken |-> t, guestId |-> g,
                    ct0 |-> localCt0, slot |-> 0, open |-> FALSE]
  /\ UNCHANGED <<authTokenFile, rootTokenFile, guestIdFile, ct0File,
                 calls, browsers, sent, launches>>
  /\ UNCHANGED <<randomDraws, xpffVars, xVars, otherVars>>

\* saveTokens(authToken, guestId, ct0): each slot is written only when its
\* value is truthy.
SaveTokens(authToken, guestId, ct0) ==
  /\ authTokenFile' = IF Truthy(authToken) THEN authToken ELSE authTokenFile
  /\ guestIdFile' = IF Truthy(guestId) THEN guestId ELSE guestIdFile
  /\ ct0File' = IF Truthy(ct0) THEN ct0 ELSE ct0File

\* manualLogin / automatedLogin with both required tokens: saveTokens, its
\* three writes taken as one step.
LoginSave ==
  /\ login.pc = "captured"
  /\ SaveTokens(login.authToken, login.guestId, login.ct0)
  /\ login' = IdleLogin
  /\ UNCHANGED <<rootTokenFile, cookiesFile, calls, browsers, sent, launches>>
  /\ UNCHANGED <<randomDraws, xpffVars, xVars, otherVars>>

\* getAuthToken of xService.js (GET /auth/token): a manual login that stores
\* the captured auth_token and nothing else.
XGetAuthToken(t) ==
  /\ authTokenFile' = t
  /\ UNCHANGED <<rootTokenFile, guestIdFile, ct0File, cookiesFile,
                 login, calls, browsers, sent, launches>>
  /\ UNCHANGED <<randomDraws, xpffVars, xVars, otherVars>>

\* ------------------------------------------------------------------------
\* Direct calls
\* ------------------------------------------------------------------------

Variants == {"go", "fix403"}

Reject(c, msg) ==
  [calls EXCEPT ![c].pc = "done", ![c].outcome = "rejected", ![c].error = msg]

Resolve(c, value) ==
  [calls EXCEPT ![c].pc = "done", ![c].outcome = "resolved", ![c].result = value]

\* Entry of createDirectPost / replyDirectToPost (both variants) and of
\* getCT0Token: the URL check of a reply, then the session token read.
Start(c, variant, op, url, guestArg) ==
  /\ calls[c].pc = "idle"
  /\ variant = "authManager" <=> op = "getCT0Token"
  /\ op = "reply" <=> url # <<>>
  /\ op = "getCT0Token" => guestArg = NULL
  /\ LET token == IF variant = "authManager"
                  THEN authTokenFile
                  ELSE ReadAuthToken(authTokenFile, rootTokenFile)
         entered == [calls[c] EXCEPT !.variant = variant, !.op = op,
                                     !.url = url, !.guestArg = guestArg]
         begun == [calls EXCEPT ![c] = entered]
     IN calls' =
          IF op = "reply" /\ ~UrlMatches(url)
          THEN [begun EXCEPT ![c].pc = "done", ![c].outcome = "rejected",
                             ![c].error = "Invalid post URL format"]
          ELSE IF token = NULL
          THEN [begun EXCEPT ![c].pc = "done", ![c].outcome = "rejected",
                             ![c].error = IF variant = "authManager"
                                          THEN "No auth token available for CT0 extraction"
                                          ELSE "Failed to read auth_token.txt"]
          ELSE [begun EXCEPT ![c].pc = "acquire", ![c].authToken = token]
  /\ UNCHANGED <<storeVars, login, browsers, sent, launches>>
  /\ UNCHANGED <<randomDraws, xpffVars, xVars, otherVars>>

\* The browser process the k-th puppeteer.launch call of the module brings up
\* is the module's one shared instance, as in xService.js (variant of
\* LaunchedInstance).
LaunchedInstance_Shared(k) == 1

\* The browser process the k-th puppeteer.launch call brings up: every call
\* starts a process of its own, with its own profile and cookie jar.
LaunchedInstance(k) == k

\* Start of the CSRF acquisition.  goCt0Manager races puppeteer.launch
\* against a 60 s timer; cookieManager (403-fix variant) first looks for a
\* ct0 cookie in cookies.json and returns it without a browser; getCT0Token
\* launches directly.
LaunchBrowser(c, outcome) ==
  /\ calls[c].pc = "acquire"
  /\ outcome \in {"ok", "error", "timeout"}
  /\ outcome = "timeout" => calls[c].variant = "go"
  /\ IF calls[c].variant = "fix403" /\ cookiesFile \notin {NULL, NoCt0Jar}
     THEN /\ outcome = "ok"
          /\ calls' = [calls EXCEPT ![c].pc = "build", ![c].ct0 = cookiesFile]
          /\ UNCHANGED <<browsers, launches>>
     ELSE CASE outcome = "ok" ->
                 /\ calls' = [calls EXCEPT ![c].pc = "page",
                                           ![c].browser = LaunchedInstance(launches + 1)]
                 /\ browsers' = [browsers EXCEPT ![c] = "open"]
                 /\ launches' = launches + 1
            [] outcome = "error" ->
                 /\ calls' = Reject(c, IF calls[c].variant = "fix403"
                                        THEN "Failed to get CT0 cookie: browser launch failed"
                                        ELSE "browser launch failed")
                 /\ UNCHANGED <<browsers, launches>>
            [] outcome = "timeout" ->
                 /\ calls' = Reject(c, "Browser launch timeout (60s)")
                 /\ browsers' = [browsers EXCEPT ![c] = "launching"]
                 /\ launches' = launches + 1
  /\ UNCHANGED <<storeVars, login, sent>>
  /\ UNCHANGED <<randomDraws, xpffVars, xVars, otherVars>>

\* puppeteer.launch settling after the 60 s timer has already won the race:
\* nothing holds the promise any more.
LateLaunch(c, launched) ==
  /\ browsers[c] = "launching"
  /\ browsers' = [browsers EXCEPT ![c] = IF launched THEN "open" ELSE "none"]
  /\ UNCHANGED <<storeVars, login, calls, sent, launches>>
  /\ UNCHANGED <<randomDraws, xpffVars, xVars, otherVars>>

HarvestOutcomes == {"ok", "pageFail", "navFail", "noCookie"}

\* The browser a CSRF acquisition leaves behind for each way it can end:
\* goCt0Manager closes it in the newPage catch block and in the finally
\* block; cookieManager and getCT0Token close it only on the straight path.
BrowserAfterHarvest(variant, outcome) ==
  IF variant = "go" THEN "closed"
  ELSE IF outcome \in {"ok", "noCookie"} THEN "closed"
  ELSE "open"

\* Every way the acquisition can fail is reported with the same message
\* (variant of HarvestError).
HarvestError_Generic(variant, outcome) == "CT0 acquisition failed"

\* The message of the error an acquisition that ends with outcome throws:
\* each acquirer has its own wording for the missing cookie, puppeteer's
\* errors pass through as they are, and getReliableCT0 (403-fix variant)
\* puts its prefix in front.
HarvestError(variant, outcome) ==
  LET cause == CASE outcome = "pageFail" -> "newPage timeout (10s)"
                 [] outcome = "navFail" -> "Navigation timeout of 30000 ms exceeded"
                 [] variant = "go" -> "ct0 cookie not found"
                 [] variant = "fix403" ->
                      "Failed to retrieve ct0 cookie, auth_token may be invalid"
                 [] OTHER -> "Failed to extract CT0 token"
  IN IF variant = "fix403" THEN "Failed to get CT0 cookie: " \o cause ELSE cause

\* The rest of the CSRF acquisition: new page, auth_token cookie injection,
\* navigation, settle delay, reading the ct0 cookie, closing the browser.
\* cookieManager saves the jar to cookies.json, getCT0Token writes ct0.txt.
Harvest(c, outcome) ==
  /\ calls[c].pc = "page"
  /\ outcome \in HarvestOutcomes
  /\ browsers' = [browsers EXCEPT ![c] = BrowserAfterHarvest(calls[c].variant, outcome)]
  /\ LET ct0 == Ct0Of(calls[c].authToken)
     IN IF outcome # "ok"
        THEN /\ calls' = [Reject(c, HarvestError(calls[c].variant, outcome))
                             EXCEPT ![c].harvest = outcome]
             /\ UNCHANGED <<cookiesFile, ct0File>>
        ELSE /\ calls' = IF calls[c].variant = "authManager"
                         THEN [Resolve(c, [ct0 |-> ct0])
                                 EXCEPT ![c].ct0 = ct0, ![c].harvest = outcome]
                         ELSE [calls EXCEPT ![c].pc = "build", ![c].ct0 = ct0,
                                            ![c].harvest = outcome]
             /\ cookiesFile' = IF calls[c].variant = "fix403" THEN ct0 ELSE cookiesFile
             /\ ct0File' = IF calls[c].variant = "authManager" THEN ct0 ELSE ct0File
  /\ UNCHANGED <<authTokenFile, rootTokenFile, guestIdFile, login, sent, launches>>
  /\ UNCHANGED <<randomDraws, xpffVars, xVars, otherVars>>

\* The session identifier the XPFF header is generated for: the route-wired
\* functions fall back to data/guest_id.txt and refuse without one; the
\* 403-fix variant passes its argument on as it is.
GuestIdFor(variant, guestArg, stored) ==
  IF variant = "go"
  THEN (IF Truthy(guestArg) THEN guestArg ELSE stored)
  ELSE guestArg

\* The CreateTweet request as assembled: Cookie and X-Csrf-Token headers,
\* X-Xp-Forwarded-For key material, reply target.
Request(c, guestId, now, cryptoOk) ==
  [caller    |-> c,
   op        |-> calls[c].op,
   authToken |-> calls[c].authToken,
   ct0       |-> calls[c].ct0,
   xpffKey   |-> XpffKey(guestId),
   xpff      |-> GenerateXPFF(guestId, randomDraws + 1, now, cryptoOk),
   quoted    |-> calls[c].variant = "fix403",
   inReplyTo |-> IF calls[c].op = "reply" THEN ExtractTweetId(calls[c].url) ELSE <<>>,
   replyIdJson |-> IF calls[c].op = "reply"
                   THEN JsonStringify(TweetIdString(calls[c].url))
                   ELSE <<>>]

\* From the acquired ct0 to the axios call: session identifier, XPFF header,
\* body and headers, request on the wire.
SendRequest(c, now, cryptoOk) ==
  /\ calls[c].pc = "build"
  /\ LET guestId == GuestIdFor(calls[c].variant, calls[c].guestArg, guestIdFile)
     IN IF calls[c].variant = "go" /\ ~Truthy(guestId)
        THEN /\ calls' = Reject(c, "Guest ID not found. Please run authentication first.")
             /\ UNCHANGED <<sent, randomDraws>>
        ELSE /\ calls' = [calls EXCEPT ![c].pc = "sent"]
             /\ sent' = sent \cup {Request(c, guestId, now, cryptoOk)}
             /\ randomDraws' = IF cryptoOk THEN randomDraws + 1 ELSE randomDraws
  /\ UNCHANGED <<storeVars, login, browsers, launches>>
  /\ UNCHANGED <<xpffVars, xVars, otherVars>>

\* What the function makes of an HTTP response (validateStatus accepts every
\* status, so each one reaches the analysis).
Interpret(variant, op, status, body, url) ==
  IF variant = "fix403" THEN InterpretFix403(status, body, op)
  ELSE IF op = "post" THEN InterpretPost(status, body)
  ELSE InterpretReply(status, body, ExtractTweetId(url))

\* createDirectPost / replyDirectToPost of Test/goStyleDirectApi.js: a 200
\* whose body has errors or lacks the identifier is returned as a failure
\* without status, any other 200 as a success, a non-200 as a failure whose
\* message ends with the status (kept here as a field of its own).
InterpretTest(status, body, op) ==
  LET hasErrors == Truthy(ErrorsAt(body)) \/ ~Truthy(RestIdAt(body))
  IN IF status = 200
     THEN IF hasErrors
          THEN Return([success |-> FALSE,
                       message |-> IF op = "post"
                                   THEN "Post attempt returned 200 but contains errors"
                                   ELSE "Reply attempt returned 200 but contains errors",
                       data    |-> body])
          ELSE IF op = "post"
          THEN Return([success |-> TRUE,
                       message |-> "Post published successfully via Go-style direct API",
                       tweetId |-> RestIdAt(body),
                       data    |-> body])
          ELSE Return([success |-> TRUE,
                       message |-> "Reply published successfully via Go-style direct API",
                       data    |-> body])
     ELSE Return([success |-> FALSE,
                  message |-> IF op = "post" THEN "Failed to post: " ELSE "Failed to reply: ",
                  status  |-> status,
                  error   |-> body])

\* The parallel implementations of the pipeline kept in the repository.
PipelineVariants == Variants \cup {"test"}

\* What the implementation named variant makes of an HTTP response.
InterpretVariant(variant, op, status, body, url) ==
  IF variant = "test"
  THEN InterpretTest(status, body, op)
  ELSE Interpret(variant, op, status, body, url)

\* The remote endpoint answers.
Respond(c, status, body) ==
  /\ calls[c].pc = "sent"
  /\ LET r == Interpret(calls[c].variant, calls[c].op, status, body, calls[c].url)
         answered == [calls EXCEPT ![c].status = status, ![c].body = body,
                                   ![c].pc = "done"]
     IN calls' = IF r.kind = "return"
                 THEN [answered EXCEPT ![c].outcome = "resolved", ![c].result = r.value]
                 ELSE [answered EXCEPT ![c].outcome = "rejected", ![c].error = r.error]
  /\ UNCHANGED <<storeVars, login, browsers, sent, launches>>
  /\ UNCHANGED <<randomDraws, xpffVars, xVars, otherVars>>

\* axios rejects: no HTTP response at all (connection refused, reset, DNS).
NetworkError(c) ==
  /\ calls[c].pc = "sent"
  /\ calls' = Reject(c, "network error")
  /\ UNCHANGED <<storeVars, login, browsers, sent, launches>>
  /\ UNCHANGED <<randomDraws, xpffVars, xVars, otherVars>>

\* ------------------------------------------------------------------------
\* saveTokens write by write
\* ------------------------------------------------------------------------

\* The values saveTokens was called with, in the order it writes them.
SaveValue(k) ==
  CASE k = 1 -> login.authToken
    [] k = 2 -> login.guestId
    [] k = 3 -> login.ct0
    [] OTHER -> NULL

\* The next slot saveTokens writes after slot k: a falsy value is skipped;
\* 0 when nothing is left to write.
NextSlot(k) ==
  IF \E j \in (k + 1)..3 : Truthy(SaveValue(j))
  THEN CHOOSE j \in (k + 1)..3 :
         /\ Truthy(SaveValue(j))
         /\ \A i \in (k + 1)..(j - 1) : ~Truthy(SaveValue(i))
  ELSE 0

\* The three files with slot k holding v.
SlotWrite(k, v) ==
  /\ authTokenFile' = IF k = 1 THEN v ELSE authTokenFile
  /\ guestIdFile' = IF k = 2 THEN v ELSE guestIdFile
  /\ ct0File' = IF k = 3 THEN v ELSE ct0File

\* fs.promises.writeFile(path, data), first half: the file is opened with
\* flag 'w', which creates it or truncates it to zero length.
WriteOpen ==
  /\ login.pc \in {"captured", "saving"}
  /\ ~login.open
  /\ NextSlot(login.slot) # 0
  /\ SlotWrite(NextSlot(login.slot), "")
  /\ login' = [login EXCEPT !.pc = "saving", !.open = TRUE]
  /\ UNCHANGED <<rootTokenFile, cookiesFile, calls, browsers, sent, launches>>
  /\ UNCHANGED <<randomDraws, xpffVars, xVars, otherVars>>

\* fs.promises.writeFile(path, data), second half: the data is written and
\* the file closed; saveTokens goes on to its next value or returns.
WriteData ==
  /\ login.pc = "saving"
  /\ login.open
  /\ LET k == NextSlot(login.slot)
     IN /\ SlotWrite(k, SaveValue(k))
        /\ login' = IF NextSlot(k) = 0
                    THEN IdleLogin
                    ELSE [login EXCEPT !.slot = k, !.open = FALSE]
  /\ UNCHANGED <<rootTokenFile, cookiesFile, calls, browsers, sent, launches>>
  /\ UNCHANGED <<randomDraws, xpffVars, xVars, otherVars>>

\* ------------------------------------------------------------------------
\* generateXPFF / decodeXPFF called on their own
\* ------------------------------------------------------------------------

\* generateXPFF(guestId) at clock reading now.
GenerateCall(guestId, now, cryptoOk) ==
  /\ Len(xpffLog) < MaxEncrypts
  /\ xpffLog' = Append(xpffLog,
                       [guestId |-> guestId, now |-> now,
                        out |-> GenerateXPFF(guestId, randomDraws + 1, now, cryptoOk)])
  /\ randomDraws' = IF cryptoOk THEN randomDraws + 1 ELSE randomDraws
  /\ UNCHANGED <<directVars, decoded, xVars, otherVars>>

\* hex with its i-th digit changed.
TamperAt(hex, i) == [hex EXCEPT ![i] = (hex[i] + 1) % HexMod]

\* Inputs decodeXPFF is called with: the headers generated so far, each of
\* them cut short after any number of hex digits, and each of them with any
\* one hex digit changed.
DecodeInputs ==
  UNION { {SubSeq(xpffLog[j].out, 1, n) : n \in 0..Len(xpffLog[j].out)}
            \cup {TamperAt(xpffLog[j].out, i) : i \in 1..Len(xpffLog[j].out)}
          : j \in 1..Len(xpffLog) }

\* The guestId argument of a decodeXPFF call: the guest id of the header,
\* another one, or none.
DecodeGuests == GuestIds \cup {"g2", NULL}

\* decodeXPFF(xpffHex, guestId), called once on an input of its caller's
\* choice.
DecodeCall ==
  /\ ~decoded.called
  /\ \E xpffHex \in DecodeInputs, guestId \in DecodeGuests :
       decoded' = [called |-> TRUE, hex |-> xpffHex, guestId |-> guestId,
                   out |-> DecodeXPFF(xpffHex, guestId)]
  /\ UNCHANGED <<directVars, randomDraws, xpffLog, xVars, otherVars>>

\* ------------------------------------------------------------------------
\* Browser-automation service (xService.js)
\* ------------------------------------------------------------------------

XOps == {"createPost", "replyToPost", "checkSessionStatus"}

XReject(r) == [xRequests EXCEPT ![r].pc = "done", ![r].outcome = "rejected"]

XResolve(r) == [xRequests EXCEPT ![r].pc = "done", ![r].outcome = "resolved"]

\* page.isClosed() for the page numbered p.
PageClosed(p) == xPages[p].closed

\* The process of the browser numbered b has ended.
BrowserGone(b) == xBrowsers[b] = "closed"

\* Driving the page numbered p throws: it was closed, or its browser is gone.
PageDead(p) == PageClosed(p) \/ BrowserGone(xPages[p].browser)

\* A request arrives at POST /post, POST /reply or GET /session.
XStart(r, op) ==
  /\ xRequests[r].pc = "idle"
  /\ xRequests' = [xRequests EXCEPT ![r].pc = "ensure", ![r].op = op]
  /\ UNCHANGED <<browserInstance, currentSession, sessionValid, xPages, xBrowsers>>
  /\ UNCHANGED <<directVars, randomDraws, xpffVars, otherVars>>

\* The test that opens ensureValidSession and checkSessionStatus: is there
\* a session to use, or must createSession run.
XEnsure(r) ==
  /\ xRequests[r].pc = "ensure"
  /\ LET check == xRequests[r].op = "checkSessionStatus"
         create == IF check THEN browserInstance = 0 \/ currentSession = 0
                            ELSE currentSession = 0
     IN xRequests' = [xRequests EXCEPT ![r].pc =
                        IF create THEN "init"
                        ELSE IF check THEN "use" ELSE "validate"]
  /\ UNCHANGED <<browserInstance, currentSession, sessionValid, xPages, xBrowsers>>
  /\ UNCHANGED <<directVars, randomDraws, xpffVars, otherVars>>

\* initializeBrowser up to its await: the existing instance is returned, or
\* puppeteer.launch is called.
XInitBrowser(r) ==
  /\ xRequests[r].pc = "init"
  /\ xRequests' = IF browserInstance # 0
                  THEN [xRequests EXCEPT ![r].pc = "newPage",
                                         ![r].browser = browserInstance]
                  ELSE [xRequests EXCEPT ![r].pc = "launching"]
  /\ UNCHANGED <<browserInstance, currentSession, sessionValid, xPages, xBrowsers>>
  /\ UNCHANGED <<directVars, randomDraws, xpffVars, otherVars>>

\* puppeteer.launch resolves: browserInstance is assigned and the
\* disconnected handler is attached to the new browser.
XLaunched(r) ==
  /\ xRequests[r].pc = "launching"
  /\ browserInstance' = Len(xBrowsers) + 1
  /\ xBrowsers' = Append(xBrowsers, "running")
  /\ launches' = launches + 1
  /\ xRequests' = [xRequests EXCEPT ![r].pc = "newPage",
                                    ![r].browser = Len(xBrowsers) + 1]
  /\ UNCHANGED <<currentSession, sessionValid, xPages>>
  /\ UNCHANGED <<storeVars, login, calls, browsers, sent>>
  /\ UNCHANGED <<randomDraws, xpffVars, otherVars>>

\* The rest of createSession: browser.newPage() on the browser that
\* initializeBrowser returned, viewport, user agent, stored cookies, and the
\* assignment of currentSession.  newPage throws on a browser that is gone.
XNewPage(r) ==
  /\ xRequests[r].pc = "newPage"
  /\ IF BrowserGone(xRequests[r].browser)
     THEN /\ xRequests' = XReject(r)
          /\ UNCHANGED <<xPages, currentSession>>
     ELSE /\ xPages' = Append(xPages, [closed |-> FALSE,
                                       browser |-> xRequests[r].browser])
          /\ currentSession' = Len(xPages) + 1
          /\ xRequests' = [xRequests EXCEPT ![r].pc =
                             IF xRequests[r].op = "checkSessionStatus" THEN "use"
                                                                       ELSE "validate"]
  /\ UNCHANGED <<browserInstance, sessionValid, xBrowsers>>
  /\ UNCHANGED <<directVars, randomDraws, xpffVars, otherVars>>

\* The rest of ensureValidSession: const { page } = currentSession, the
\* navigation to /home and the logged-in test (a failed token login counts
\* as not logged in).  Reading page off a null session and navigating a
\* closed page both throw.
XValidate(r, loggedIn) ==
  /\ xRequests[r].pc = "validate"
  /\ IF currentSession = 0 \/ PageDead(currentSession)
     THEN /\ xRequests' = XReject(r)
          /\ UNCHANGED sessionValid
     ELSE /\ sessionValid' = loggedIn
          /\ xRequests' = IF loggedIn
                          THEN [xRequests EXCEPT ![r].pc = "use",
                                                 ![r].page = currentSession]
                          ELSE [XReject(r) EXCEPT ![r].page = currentSession]
  /\ UNCHANGED <<browserInstance, currentSession, xPages, xBrowsers>>
  /\ UNCHANGED <<directVars, randomDraws, xpffVars, otherVars>>

\* createPost / replyToPost / checkSessionStatus: const { page } =
\* currentSession, then the first navigation on that page.
XUse(r) ==
  /\ xRequests[r].pc = "use"
  /\ xRequests' = IF currentSession = 0 \/ PageDead(currentSession)
                  THEN XReject(r)
                  ELSE [xRequests EXCEPT ![r].pc = "driving",
                                         ![r].page = currentSession]
  /\ UNCHANGED <<browserInstance, currentSession, sessionValid, xPages, xBrowsers>>
  /\ UNCHANGED <<directVars, randomDraws, xpffVars, otherVars>>

\* The end of the operation.  createPost closes its page, fails on the
\* undeclared name browser inside its cleanup try block and resets the three
\* globals in the catch block; replyToPost and checkSessionStatus return
\* without touching them.  An operation whose page was closed meanwhile
\* throws.
XFinish(r) ==
  /\ xRequests[r].pc = "driving"
  /\ LET page == xRequests[r].page
     IN IF PageDead(page)
        THEN /\ xRequests' = XReject(r)
             /\ UNCHANGED <<browserInstance, currentSession, sessionValid, xPages>>
        ELSE IF xRequests[r].op = "createPost"
        THEN /\ xPages' = [xPages EXCEPT ![page].closed = TRUE]
             /\ browserInstance' = 0
             /\ currentSession' = 0
             /\ sessionValid' = FALSE
             /\ xRequests' = XResolve(r)
        ELSE /\ xRequests' = XResolve(r)
             /\ UNCHANGED <<browserInstance, currentSession, sessionValid, xPages>>
  /\ UNCHANGED <<xBrowsers, directVars, randomDraws, xpffVars, otherVars>>

\* The 'disconnected' event of a browser launched by initializeBrowser (the
\* process crashed or was killed): its handler resets the three globals,
\* whichever browser they refer to at that moment.
XDisconnected(b) ==
  /\ b \in 1..Len(xBrowsers)
  /\ ~BrowserGone(b)
  /\ xBrowsers' = [xBrowsers EXCEPT ![b] = "closed"]
  /\ browserInstance' = 0
  /\ currentSession' = 0
  /\ sessionValid' = FALSE
  /\ UNCHANGED <<xPages, xRequests>>
  /\ UNCHANGED <<directVars, randomDraws, xpffVars, otherVars>>

\* cleanup(): browserInstance.close() and, in the finally block,
\* browserInstance and currentSession set to null.  A close that goes
\* through ends the process and fires the disconnected handler, which also
\* resets sessionValid; a close that throws is logged and leaves the browser
\* and sessionValid as they were.
XCleanup(closed) ==
  /\ browserInstance # 0
  /\ xBrowsers' = IF closed
                  THEN [xBrowsers EXCEPT ![browserInstance] = "closed"]
                  ELSE xBrowsers
  /\ browserInstance' = 0
  /\ currentSession' = 0
  /\ sessionValid' = IF closed THEN FALSE ELSE sessionValid
  /\ UNCHANGED <<xPages, xRequests>>
  /\ UNCHANGED <<directVars, randomDraws, xpffVars, otherVars>>

\* ------------------------------------------------------------------------
\* authMiddleware (middleware/auth.js), mounted before every /api router
\* ------------------------------------------------------------------------

\* Requests to /api that a behaviour follows.
MaxApiRequests == 2

\* process.env.API_TOKEN, as a sequence of pieces (it holds no space).
ApiToken == <<"tok">>

\* Authorization header texts, as sequences of lexical pieces: "Bearer" and
\* "Basic" are scheme words, " " is one space, "tok" is the text of the
\* configured API_TOKEN and "bad" is any other text without a space.
HeaderTexts ==
  { <<>>,                                   \* Authorization:
    <<"Basic", " ", "tok">>,                \* Basic tok
    <<"Bearer">>,                           \* Bearer
    <<"Bearer", "tok">>,                    \* Bearertok
    <<"Bearer", " ">>,                      \* "Bearer "
    <<"Bearer", " ", "tok">>,               \* Bearer tok
    <<"Bearer", " ", "bad">>,               \* Bearer bad
    <<"Bearer", " ", "tok", "bad">>,        \* Bearer tokbad
    <<"Bearer", " ", " ", "tok">>,          \* Bearer  tok (two spaces)
    <<"Bearer", " ", "tok", " ", "bad">> }  \* Bearer tok bad

\* req.headers.authorization: undefined when the header is missing.
AuthHeaders ==
  {[present |-> FALSE, text |-> <<>>]} \cup
  {[present |-> TRUE, text |-> t] : t \in HeaderTexts}

\* authHeader.startsWith('Bearer ')
StartsWithBearer(text) ==
  Len(text) >= 2 /\ text[1] = "Bearer" /\ text[2] = " "

\* The pieces of text from position i up to the next space or the end.
RECURSIVE UpToSpace(_, _)
UpToSpace(text, i) ==
  IF i > Len(text) \/ text[i] = " "
  THEN <<>>
  ELSE <<text[i]>> \o UpToSpace(text, i + 1)

\* authHeader.split(' ')[1] for a text that holds a space: what stands
\* between the first space and the second one.
SplitSecond(text) ==
  LET first == CHOOSE i \in 1..Len(text) :
                 text[i] = " " /\ \A j \in 1..(i - 1) : text[j] # " "
  IN UpToSpace(text, first + 1)

\* authMiddleware: the status it answers with (0 when it answers nothing)
\* and whether it calls next().
AuthDecision(header) ==
  IF ~header.present \/ header.text = <<>> \/ ~StartsWithBearer(header.text)
  THEN [status |-> 401, next |-> FALSE]
  ELSE IF SplitSecond(header.text) # ApiToken
  THEN [status |-> 403, next |-> FALSE]
  ELSE [status |-> 0, next |-> TRUE]

\* A request to a route under /api goes through authMiddleware; the route
\* handler runs when the middleware calls next().
ApiRequest(header) ==
  /\ Len(apiRequests) < MaxApiRequests
  /\ LET d == AuthDecision(header)
     IN apiRequests' = Append(apiRequests,
                              [header |-> header, status |-> d.status,
                               handled |-> d.next])
  /\ UNCHANGED <<directVars, randomDraws, xpffVars, xVars, loginNav, routeAnswers, poll, sessionStore>>

\* ------------------------------------------------------------------------
\* loginToX (unnamed/part_001): navigation to the login page
\* ------------------------------------------------------------------------

\* loginToX calls that a behaviour follows.
MaxLoginCalls == 3

\* const maxRetries = 3
MaxRetries == 3

\* The unit of the delay between two navigation attempts, in milliseconds.
RetryDelayUnit == 2000

\* The same delay before every retry (variant of RetryDelay).
RetryDelay_Constant(retries) == RetryDelayUnit

\* setTimeout(r, 2000 * retries)
RetryDelay(retries) == RetryDelayUnit * retries

\* loginToX is called: without configured credentials it throws at once,
\* which its outer catch turns into the result false.
LoginToXStart(configured) ==
  /\ loginNav.pc \in {"idle", "done"}
  /\ Len(loginNav.finished) < MaxLoginCalls
  /\ loginNav' =
       IF configured
       THEN [IdleLoginNav EXCEPT !.pc = "navigate",
                                 !.finished = loginNav.finished]
       ELSE [IdleLoginNav EXCEPT !.pc = "done",
                                 !.finished = Append(loginNav.finished, FALSE)]
  /\ UNCHANGED <<directVars, randomDraws, xpffVars, xVars, apiRequests, routeAnswers, poll, sessionStore>>

\* One turn of while (!success && retries < maxRetries): page.goto goes
\* through (ok) or throws.  A throw counts a retry; at maxRetries the error
\* is thrown on, through the inner catch to the outer one, which returns
\* false; below it the loop sleeps and turns again.
LoginNavigate(ok) ==
  /\ loginNav.pc = "navigate"
  /\ ~loginNav.success /\ loginNav.retries < MaxRetries
  /\ LET tried == [loginNav EXCEPT !.gotos = @ + 1]
         retries == loginNav.retries + 1
     IN loginNav' =
          IF ok
          THEN [tried EXCEPT !.success = TRUE, !.pc = "form"]
          ELSE IF retries >= MaxRetries
          THEN [tried EXCEPT !.retries = retries, !.pc = "done",
                             !.result = FALSE,
                             !.finished = Append(@, FALSE)]
          ELSE [tried EXCEPT !.retries = retries,
                             !.delays = Append(@, RetryDelay(retries))]
  /\ UNCHANGED <<directVars, randomDraws, xpffVars, xVars, apiRequests, routeAnswers, poll, sessionStore>>

\* The rest of loginToX, on the login page: it returns true or false.
LoginForm(loggedIn) ==
  /\ loginNav.pc = "form"
  /\ loginNav' = [loginNav EXCEPT !.pc = "done", !.result = loggedIn,
                                  !.finished = Append(@, loggedIn)]
  /\ UNCHANGED <<directVars, randomDraws, xpffVars, xVars, apiRequests, routeAnswers, poll, sessionStore>>

\* ------------------------------------------------------------------------
\* Routes of postingRoutes.js that call the direct functions
\* ------------------------------------------------------------------------

\* The request came in on one of the routes that take a guest_id in the
\* body (POST /post, /reply) and pass it on; the /direct/post and
\* /direct/reply routes pass none.
LegacyRoute(c) == calls[c].guestArg # NULL

\* The /direct/post and /direct/reply handlers after the awaited call: a
\* failure result is answered 400, a success result 200, a rejection 500.
DirectRouteAnswer(call) ==
  IF call.outcome = "rejected"
  THEN [http |-> 500, status |-> "error",
        message |-> IF call.op = "post"
                    THEN "Failed to create post via direct API"
                    ELSE "Failed to create reply via direct API",
        data |-> NoResult]
  ELSE IF ~call.result.success
  THEN [http |-> 400, status |-> "error", message |-> call.result.message,
        data |-> call.result.data]
  ELSE [http |-> 200, status |-> "success", message |-> call.result.message,
        data |-> [id |-> ResultId(call.result),
                  apiResponse |-> call.result.data]]

\* The /post and /reply handlers after the awaited call: whatever the
\* function returned is answered 200, a rejection 500.
LegacyRouteAnswer(call) ==
  IF call.outcome = "rejected"
  THEN [http |-> 500, status |-> "error", message |-> call.error,
        data |-> NoResult]
  ELSE [http |-> 200, status |-> "success",
        message |-> IF call.op = "post"
                    THEN "Post created successfully via direct API"
                    ELSE "Reply created successfully via direct API",
        data |-> call.result]

\* The request body fails the route's validation: answered 400 without
\* calling the direct function.
RouteInvalid(c) ==
  /\ calls[c].pc = "idle"
  /\ routeAnswers[c] = NoAnswer
  /\ routeAnswers' = [routeAnswers EXCEPT ![c] =
       [http |-> 400, status |-> "error", message |-> "Validation failed",
        data |-> NoResult]]
  /\ calls' = [calls EXCEPT ![c].pc = "done"]
  /\ UNCHANGED <<storeVars, login, browsers, sent, launches>>
  /\ UNCHANGED <<randomDraws, xpffVars, xVars, apiRequests, loginNav, poll, sessionStore>>

\* The awaited createDirectPost / replyDirectToPost has settled and the
\* handler answers.  (POST /reply accepts only URLs with /status/<digits>.)
RouteAnswer(c) ==
  /\ calls[c].pc = "done"
  /\ calls[c].outcome # "none"
  /\ calls[c].variant = "go"
  /\ routeAnswers[c] = NoAnswer
  /\ (LegacyRoute(c) /\ calls[c].op = "reply") => UrlMatches(calls[c].url)
  /\ routeAnswers' = [routeAnswers EXCEPT ![c] =
       IF LegacyRoute(c) THEN LegacyRouteAnswer(calls[c])
                         ELSE DirectRouteAnswer(calls[c])]
  /\ UNCHANGED <<directVars, randomDraws, xpffVars, xVars, apiRequests, loginNav, poll, sessionStore>>

\* ------------------------------------------------------------------------
\* The cookie polling loops of manualLogin and getAuthToken
\* ------------------------------------------------------------------------

PollFunctions == {"manualLogin", "getAuthToken"}

\* setTimeout(resolve, 5000), in milliseconds.
PollInterval == 5000

\* What page.cookies() may show of the three cookies: absent (NULL), or
\* present with a value, which may be empty.
CookieJars ==
  [auth_token : {NULL, "", "abc"}, guest_id : {NULL, "g1"},
   ct0 : {NULL, "csrf1"}]

\* The cookies the loop of fn waits for have been captured.
Captured(fn, authToken, guestId) ==
  IF fn = "manualLogin" THEN Truthy(authToken) /\ Truthy(guestId)
                        ELSE Truthy(authToken)

\* The loop goes on for as long as the cookies are missing (variant of
\* LoopContinues).
LoopContinues_Unbounded(p) == ~Captured(p.fn, p.authToken, p.guestId)

\* while (maxAttempts > 0 && (!authToken || !guestId))   (manualLogin)
\* while (maxAttempts > 0 && !authToken)                  (getAuthToken)
LoopContinues(p) ==
  p.maxAttempts > 0 /\ ~Captured(p.fn, p.authToken, p.guestId)

\* if (cookie.name === n && !held) held = cookie.value
FirstSeen(held, cookie) ==
  IF cookie # NULL /\ ~Truthy(held) THEN cookie ELSE held

\* manualLogin or getAuthToken has launched its browser and opened the
\* login page, or failed to, which its catch turns into success: false.
PollStart(fn, opened) ==
  /\ poll.pc = "idle"
  /\ poll' = IF opened
             THEN [IdlePoll EXCEPT !.fn = fn, !.pc = "polling"]
             ELSE [IdlePoll EXCEPT !.fn = fn, !.pc = "done"]
  /\ UNCHANGED <<directVars, randomDraws, xpffVars, xVars, apiRequests,
                 loginNav, routeAnswers, sessionStore>>

\* One turn of the loop: 5 s of sleep, page.cookies(), the extraction, and
\* either the break or maxAttempts--.  getAuthToken breaks on an auth_token
\* cookie whatever its value.
PollTurn(jar) ==
  /\ poll.pc = "polling"
  /\ LoopContinues(poll)
  /\ LET slept == [poll EXCEPT !.waited = @ + PollInterval, !.polls = @ + 1]
         read == IF poll.fn = "manualLogin"
                 THEN [slept EXCEPT
                         !.authToken = FirstSeen(@, jar.auth_token),
                         !.guestId = FirstSeen(@, jar.guest_id),
                         !.ct0 = FirstSeen(@, jar.ct0)]
                 ELSE [slept EXCEPT
                         !.authToken = IF jar.auth_token # NULL
                                       THEN jar.auth_token ELSE @]
         break == IF poll.fn = "manualLogin"
                  THEN Truthy(read.authToken) /\ Truthy(read.guestId)
                  ELSE jar.auth_token # NULL
     IN poll' = IF break
                THEN [read EXCEPT !.pc = "after"]
                ELSE [read EXCEPT !.maxAttempts = @ - 1]
  /\ UNCHANGED <<directVars, randomDraws, xpffVars, xVars, apiRequests,
                 loginNav, routeAnswers, sessionStore>>

\* page.cookies() throws inside the loop (the window was closed): the
\* function's catch returns success: false.
PollThrow ==
  /\ poll.pc = "polling"
  /\ LoopContinues(poll)
  /\ poll' = [poll EXCEPT !.pc = "done", !.success = FALSE,
                          !.waited = @ + PollInterval]
  /\ UNCHANGED <<directVars, randomDraws, xpffVars, xVars, apiRequests,
                 loginNav, routeAnswers, sessionStore>>

\* After the loop: the browser is closed and the result returned; ok says
\* whether the calls in between went through (a throw there is caught and
\* returned as success: false).
PollFinish(ok) ==
  /\ \/ poll.pc = "after"
     \/ poll.pc = "polling" /\ ~LoopContinues(poll)
  /\ poll' = [poll EXCEPT !.pc = "done",
                          !.success = ok /\ Truthy(poll.authToken)
                                         /\ (poll.fn = "manualLogin"
                                               => Truthy(poll.guestId))]
  /\ UNCHANGED <<directVars, randomDraws, xpffVars, xVars, apiRequests,
                 loginNav, routeAnswers, sessionStore>>

\* ------------------------------------------------------------------------
\* services/sessionManager.js
\* ------------------------------------------------------------------------

\* Clock advances that a behaviour follows.
MaxTicks == 3

\* Milliseconds in a day.
DayMs == 86400000

\* 24 * 60 * 60 * 1000
SessionTtl == 24 * 60 * 60 * 1000

\* How far the clock may move between two calls: one millisecond, or one
\* millisecond short of the session lifetime.
ClockSteps == {1, SessionTtl - 1}

\* What saveSession is called with.
SessionData == {"jarA", "jarB"}

\* new Date(ms).toISOString(): the date and the time of day, to the
\* millisecond.
ToISOString(ms) == [day |-> ms \div DayMs, ms |-> ms % DayMs]

\* new Date(iso): back to milliseconds.
ParseDate(iso) == iso.day * DayMs + iso.ms

\* expiresAt < new Date()
Expired(expiresAt, now) == ParseDate(expiresAt) < now

\* Time passes.
SessionTick(d) ==
  /\ sessionStore.ticks < MaxTicks
  /\ sessionStore' = [sessionStore EXCEPT !.now = @ + d, !.ticks = @ + 1]
  /\ UNCHANGED <<directVars, randomDraws, xpffVars, xVars, apiRequests,
                 loginNav, routeAnswers, poll>>

\* saveSession(cookies): the session object with its expiry 24 h ahead is
\* written to the file; if the write throws, false is returned.
SaveSession(cookies, written) ==
  /\ sessionStore' =
       IF written
       THEN [sessionStore EXCEPT
               !.file = [exists |-> TRUE, cookies |-> cookies,
                         expiresAt |-> ToISOString(sessionStore.now + SessionTtl)],
               !.lastOp = "save", !.returned = "true",
               !.saved = [any |-> TRUE, data |-> cookies,
                          at |-> sessionStore.now],
               !.cleared = FALSE]
       ELSE [sessionStore EXCEPT !.lastOp = "save", !.returned = "false"]
  /\ UNCHANGED <<directVars, randomDraws, xpffVars, xVars, apiRequests,
                 loginNav, routeAnswers, poll>>

\* getSession(): null without a file or with an expired one, else the
\* stored cookies.
GetSession ==
  /\ sessionStore' =
       [sessionStore EXCEPT
          !.lastOp = "get",
          !.returned =
             IF ~sessionStore.file.exists THEN NULL
             ELSE IF Expired(sessionStore.file.expiresAt, sessionStore.now)
             THEN NULL
             ELSE sessionStore.file.cookies]
  /\ UNCHANGED <<directVars, randomDraws, xpffVars, xVars, apiRequests,
                 loginNav, routeAnswers, poll>>

\* clearSession(): the file is unlinked if it exists; if unlinking throws,
\* false is returned.
ClearSession(unlinked) ==
  /\ sessionStore' =
       IF unlinked \/ ~sessionStore.file.exists
       THEN [sessionStore EXCEPT !.file = NoSessionFile, !.lastOp = "clear",
                                 !.returned = "true", !.cleared = TRUE]
       ELSE [sessionStore EXCEPT !.lastOp = "clear", !.returned = "false"]
  /\ UNCHANGED <<directVars, randomDraws, xpffVars, xVars, apiRequests,
                 loginNav, routeAnswers, poll>>

\* ------------------------------------------------------------------------
\* Specification
\* ------------------------------------------------------------------------

\* One step of a call: callers in who may start a call of a variant in
\* variants on a URL in urls with a guest id argument in guestArgs, the
\* clock reads a value in times when the request is assembled, the crypto
\* calls of generateXPFF go through or not as cryptos says, and the remote
\* endpoint answers with a status in statuses and a body in bodies.
CallStep(who, variants, urls, guestArgs, times, cryptos, statuses, bodies) ==
  \/ \E c \in who, v \in variants, op \in {"post", "reply", "getCT0Token"},
        u \in urls \cup {<<>>}, g \in guestArgs :
        Start(c, v, op, u, g)
  \/ \E c \in who, o \in {"ok", "error", "timeout"} : LaunchBrowser(c, o)
  \/ \E c \in who, b \in BOOLEAN : LateLaunch(c, b)
  \/ \E c \in who, o \in HarvestOutcomes : Harvest(c, o)
  \/ \E c \in who, now \in times, ok \in cryptos : SendRequest(c, now, ok)
  \/ \E c \in who, st \in statuses, b \in bodies : Respond(c, st, b)
  \/ \E c \in who : NetworkError(c)

\* One step of the service: a login, or a step of a call.
Step(who, variants, urls, guestArgs, times, cryptos, statuses, bodies) ==
  \/ \E t \in Tokens \cup {NULL}, g \in GuestIds \cup {NULL},
        l \in Ct0Values \cup {NULL}, j \in Ct0Values \cup {NULL} :
        LoginCapture(t, g, l, j)
  \/ LoginSave
  \/ \E t \in Tokens : XGetAuthToken(t)
  \/ CallStep(who, variants, urls, guestArgs, times, cryptos, statuses, bodies)

\* A single request at a time, over every input and every remote response,
\* on a system whose random source works.
Next ==
  Step({"c1"}, Variants \cup {"authManager"}, UrlInputs,
       GuestIds \cup {NULL}, {1}, {TRUE}, Statuses, Bodies)

Spec == Init /\ [][Next]_vars

\* Two POST /direct/post requests served at the same time.
NextConc ==
  CallStep(ConcurrentCallers, {"go"}, {}, GuestIds, {1}, {TRUE}, {200},
           {[kind |-> "object", rest_id |-> "555", errors |-> NULL]})

SpecConc == InitFor(ConcurrentCallers) /\ [][NextConc]_vars

\* One request of either variant, generateXPFF going through or failing.
NextFingerprint ==
  CallStep({"c1"}, Variants, UrlInputs, GuestIds \cup {NULL}, Times, BOOLEAN,
           {200, 403}, {[kind |-> "object", rest_id |-> "555", errors |-> NULL]})

SpecFingerprint == Init /\ [][NextFingerprint]_vars

\* One request served by the route-wired functions, nothing else going on.
NextLive ==
  CallStep({"c1"}, {"go"}, UrlInputs, GuestIds \cup {NULL}, {1}, {TRUE},
           Statuses, Bodies)

\* What is certain to happen: the function runs on, the browser launch is
\* raced against a 60 s timer, page creation against a 10 s timer, and page
\* navigation has puppeteer's navigation timeout.  The axios call is given
\* no timeout, so nothing makes the remote endpoint's answer certain.
SpecLive ==
  /\ Init
  /\ [][NextLive]_vars
  /\ WF_vars(\E c \in Callers, o \in {"ok", "error", "timeout"} : LaunchBrowser(c, o))
  /\ WF_vars(\E c \in Callers, o \in HarvestOutcomes : Harvest(c, o))
  /\ WF_vars(\E c \in Callers : SendRequest(c, 1, TRUE))

\* A login saving its tokens write by write while a request is served.
NextStore ==
  \/ \E t \in Tokens, g \in GuestIds, l \in Ct0Values \cup {NULL} :
        LoginCapture(t, g, l, l)
  \/ WriteOpen
  \/ WriteData
  \/ \E g \in GuestIds \cup {NULL} : Start("c1", "go", "post", <<>>, g)
  \/ LaunchBrowser("c1", "ok")
  \/ Harvest("c1", "ok")
  \/ SendRequest("c1", 1, TRUE)

SpecStore == Init /\ [][NextStore]_vars

\* generateXPFF and decodeXPFF over their inputs.
NextXpff ==
  \/ \E g \in GuestIds \cup {NULL}, now \in Times, ok \in BOOLEAN :
        GenerateCall(g, now, ok)
  \/ DecodeCall

SpecXpff == Init /\ [][NextXpff]_vars

\* Requests to the browser-automation routes, overlapping as they come.
NextX ==
  \/ \E r \in XRequestIds, op \in XOps : XStart(r, op)
  \/ \E r \in XRequestIds : XEnsure(r)
  \/ \E r \in XRequestIds : XInitBrowser(r)
  \/ \E r \in XRequestIds : XLaunched(r)
  \/ \E r \in XRequestIds : XNewPage(r)
  \/ \E r \in XRequestIds, loggedIn \in BOOLEAN : XValidate(r, loggedIn)
  \/ \E r \in XRequestIds : XUse(r)
  \/ \E r \in XRequestIds : XFinish(r)

SpecX == Init /\ [][NextX]_vars

\* The same service with the events that come from outside the requests: a
\* browser process that ends, and cleanup() with a close that goes through.
NextXLife ==
  \/ NextX
  \/ \E b \in 1..MaxXBrowsers : XDisconnected(b)
  \/ XCleanup(TRUE)

SpecXLife == Init /\ [][NextXLife]_vars

\* Requests to the protected routes, one after another.
NextApi == \E header \in AuthHeaders : ApiRequest(header)

SpecApi == Init /\ [][NextApi]_vars

\* Calls of loginToX, one after another.
NextLoginNav ==
  \/ \E configured \in BOOLEAN : LoginToXStart(configured)
  \/ \E ok \in BOOLEAN : LoginNavigate(ok)
  \/ \E loggedIn \in BOOLEAN : LoginForm(loggedIn)

SpecLoginNav == Init /\ [][NextLoginNav]_vars

\* One request to a route that calls the direct functions.
NextRoutes ==
  \/ CallStep({"c1"}, {"go"}, UrlInputs, GuestIds \cup {NULL}, {1}, {TRUE},
              Statuses, Bodies)
  \/ \E c \in Callers : RouteInvalid(c)
  \/ \E c \in Callers : RouteAnswer(c)

SpecRoutes == Init /\ [][NextRoutes]_vars

\* One manualLogin or getAuthToken call.
NextPoll ==
  \/ \E fn \in PollFunctions, opened \in BOOLEAN : PollStart(fn, opened)
  \/ \E jar \in CookieJars : PollTurn(jar)
  \/ PollThrow
  \/ \E ok \in BOOLEAN : PollFinish(ok)

\* What is certain to happen: the 5 s timer fires, page.cookies() answers
\* or throws, and the function runs on after its loop.
SpecPoll ==
  /\ Init
  /\ [][NextPoll]_vars
  /\ WF_vars((\E jar \in CookieJars : PollTurn(jar)) \/ PollThrow)
  /\ WF_vars(\E ok \in BOOLEAN : PollFinish(ok))

\* Any sequence of saveSession, getSession and clearSession calls, with
\* time passing in between.
NextSession ==
  \/ \E d \in ClockSteps : SessionTick(d)
  \/ \E cookies \in SessionData, written \in BOOLEAN :
        SaveSession(cookies, written)
  \/ GetSession
  \/ \E unlinked \in BOOLEAN : ClearSession(unlinked)

SpecSession == Init /\ [][NextSession]_vars

\* ------------------------------------------------------------------------
\* Properties
\* ------------------------------------------------------------------------

Done(c) == calls[c].pc = "done"

\* The call received an HTTP response from the CreateTweet endpoint.
Answered(c) == calls[c].status # 0

\* The call runs the functions the routes are wired to (goStyleDirectApiFix).
RouteWired(c) == calls[c].variant = "go"

RequestsOf(c) == {r \in sent : r.caller = c}

C2_SuccessCarriesId ==
  \A c \in Callers :
    ( /\ RouteWired(c)
      /\ calls[c].op = "post"
      /\ calls[c].status = 200
      /\ calls[c].body.kind = "object"
      /\ Truthy(calls[c].body.rest_id)
      /\ calls[c].body.errors = NULL )
    => /\ calls[c].outcome = "resolved"
       /\ calls[c].result.success = TRUE
       /\ calls[c].result.tweetId = calls[c].body.rest_id

\* Stored token "abc", stored identifier "g1", CSRF "csrf1", remote id "555".
C2_Witness ==
  \E c \in Callers :
    /\ RouteWired(c)
    /\ calls[c].op = "post"
    /\ calls[c].guestArg = NULL
    /\ calls[c].authToken = "abc"
    /\ calls[c].ct0 = "csrf1"
    /\ \E r \in RequestsOf(c) : r.xpffKey = "g1"
    /\ calls[c].status = 200
    /\ calls[c].body = [kind |-> "object", rest_id |-> "555", errors |-> NULL]
    /\ calls[c].result.success = TRUE
    /\ calls[c].result.tweetId = "555"

\* C3: a 200 response whose body has an errors array is a failure, also when
\* the body carries a created-resource identifier.
C3_ErrorsMeanFailure ==
  \A c \in Callers :
    (RouteWired(c) /\ calls[c].status = 200 /\ ErrorsAt(calls[c].body) # NULL)
    => /\ calls[c].outcome = "resolved"
       /\ calls[c].result.success = FALSE

C3_Witness ==
  \E c \in Callers :
    /\ RouteWired(c)
    /\ calls[c].status = 200
    /\ calls[c].body = [kind |-> "object", rest_id |-> "555", errors |-> "[e]"]
    /\ calls[c].result.success = FALSE

\* The results a non-200 answer can produce for the call c.
HardFailureResults(c) ==
  { Interpret(calls[c].variant, calls[c].op, st, b, calls[c].url).value :
      st \in Statuses \ {200}, b \in Bodies }

\* C4: a 200 response with neither identifier nor errors array is a failure
\* with a null identifier, and its result differs from the result of every
\* non-200 answer in a field other than the echoed payload: the status.
C4_AmbiguousSuccess ==
  \A c \in Callers :
    ( /\ RouteWired(c)
      /\ calls[c].status = 200
      /\ ~Truthy(calls[c].body.rest_id)
      /\ calls[c].body.errors = NULL )
    => /\ calls[c].outcome = "resolved"
       /\ calls[c].result.success = FALSE
       /\ ResultId(calls[c].result) = NULL
       /\ calls[c].result.status = 200
       /\ \A h \in HardFailureResults(c) : h.status # calls[c].result.status

C4_Witness ==
  \E c \in Callers :
    /\ RouteWired(c)
    /\ calls[c].status = 200
    /\ calls[c].body = [kind |-> "object", rest_id |-> NULL, errors |-> NULL]
    /\ calls[c].outcome = "resolved"
    /\ calls[c].result.success = FALSE

\* C5: every non-200 status s gives success = false with s in the status
\* field of the result.
C5_StatusPreserved ==
  \A c \in Callers :
    (RouteWired(c) /\ Answered(c) /\ calls[c].status # 200)
    => /\ calls[c].outcome = "resolved"
       /\ calls[c].result.success = FALSE
       /\ calls[c].result.status = calls[c].status

C5_Witness ==
  \E c \in Callers :
    /\ RouteWired(c)
    /\ calls[c].op = "reply"
    /\ calls[c].status = 500
    /\ calls[c].body.rest_id = "555"
    /\ calls[c].result.success = FALSE
    /\ calls[c].result.status = 500

\* The label a failure result gives the caller besides the echoed status and
\* payload.
FailureClass(r) == r.message

\* C6: a 403 answer gives a failure whose class differs from the class of
\* the other non-200 answers (500).
C6_AntiBotClass ==
  \A c \in Callers :
    (RouteWired(c) /\ calls[c].status = 403)
    => /\ calls[c].outcome = "resolved"
       /\ calls[c].result.success = FALSE
       /\ \A b \in Bodies :
            FailureClass(calls[c].result) #
              FailureClass(Interpret(calls[c].variant, calls[c].op, 500, b,
                                     calls[c].url).value)

\* C7: a call that finds no session token, or neither a session identifier
\* argument nor a stored one, rejects and puts no CreateTweet request on the
\* wire.
C7_SetupFailuresReject ==
  [][\A c \in Callers :
       /\ ( /\ calls[c].pc = "idle"
            /\ calls'[c].pc # "idle"
            /\ calls'[c].variant \in Variants
            /\ ReadAuthToken(authTokenFile, rootTokenFile) = NULL )
          => calls'[c].outcome = "rejected" /\ sent' = sent
       /\ ( /\ calls[c].pc = "build"
            /\ calls'[c].pc # "build"
            /\ calls[c].variant \in Variants
            /\ ~Truthy(calls[c].guestArg)
            /\ ~Truthy(guestIdFile) )
          => calls'[c].outcome = "rejected" /\ sent' = sent
    ]_vars

C9_BrowsersClosed ==
  \A c \in Callers : Done(c) => browsers[c] # "open"

\* C10: every CreateTweet request carries a CSRF token acquired under the
\* session token it carries.
C10_CsrfPairedWithToken ==
  \A r \in sent : r.ct0 = Ct0Of(r.authToken)

\* C11: a step that replaces the stored session token leaves in ct0.txt
\* only a CSRF token captured by that same login, or none: the slot never
\* keeps a CSRF token of the session token that was replaced.
C11_LoginInvalidatesCsrf ==
  [][ (authTokenFile' # authTokenFile /\ authTokenFile' # "")
      => ct0File' \in {NULL, Ct0Of(authTokenFile')} ]_vars

\* A CSRF acquisition of caller c is holding a browser.
Acquiring(c) == calls[c].pc = "page" /\ browsers[c] = "open"

\* C12: two CSRF acquisitions that run at the same time hold different
\* browser instances.
C12_OwnBrowserEach ==
  \A c \in ConcurrentCallers, d \in ConcurrentCallers :
    (c # d /\ Acquiring(c) /\ Acquiring(d))
    => calls[c].browser # calls[d].browser

C12_Witness ==
  /\ Acquiring("c1") /\ Acquiring("c2")
  /\ calls["c1"].browser # 0 /\ calls["c2"].browser # 0

\* The request r is between taking a page from the shared session and the
\* end of its operation.
XUsing(r) == xRequests[r].pc \in {"use", "driving"} /\ xRequests[r].page # 0

\* C13: two overlapping requests to the browser-automation service never
\* use the same page, and while a request uses its page nobody closes that
\* page or resets the shared session.
C13_ExclusiveSession ==
  /\ \A r \in XRequestIds, q \in XRequestIds :
       (r # q /\ XUsing(r) /\ XUsing(q)) => xRequests[r].page # xRequests[q].page
  /\ \A r \in XRequestIds :
       XUsing(r) => /\ ~PageClosed(xRequests[r].page)
                    /\ currentSession = xRequests[r].page

\* C14: every createDirectPost / replyDirectToPost call that has begun
\* settles, whatever the browser and the remote endpoint do or fail to do.
C14_CallsSettle ==
  \A c \in Callers : (calls[c].pc # "idle") ~> Done(c)

\* C15: a reader of a credential slot never reads an empty value while the
\* slot is being saved: the session token a call works with is a value that
\* was saved whole.
C15_WholeValuesOnly ==
  \A c \in Callers : calls[c].authToken # ""

\* The messages that stand for "the CSRF cookie was not there".
TokenNotFoundErrors ==
  { "ct0 cookie not found",
    "Failed to get CT0 cookie: Failed to retrieve ct0 cookie, auth_token may be invalid",
    "Failed to extract CT0 token" }

\* C16: an acquisition whose browser session completed without the CSRF
\* cookie fails with a token-not-found error, and no other failure of a call
\* (browser launch, page creation, navigation, network, caller input) is
\* reported with that error.
C16_TokenNotFoundDistinct ==
  \A c \in Callers :
    /\ calls[c].harvest = "noCookie"
         => /\ calls[c].outcome = "rejected"
            /\ calls[c].error \in TokenNotFoundErrors
            /\ RequestsOf(c) = {}
    /\ (calls[c].outcome = "rejected" /\ calls[c].harvest # "noCookie")
         => calls[c].error \notin TokenNotFoundErrors

C16_Witness ==
  \E c \in Callers :
    /\ RouteWired(c)
    /\ calls[c].harvest = "noCookie"
    /\ calls[c].error = "ct0 cookie not found"
    /\ browsers[c] = "closed"

\* C17: no CreateTweet request is on the wire with an empty or missing
\* X-Xp-Forwarded-For header: a call whose fingerprint encryption failed
\* rejects before anything is sent.
C17_NoEmptyFingerprint ==
  \A r \in sent : r.xpff # <<>>

\* The j-th generateXPFF call returned a header (not the "" of its catch).
Encrypted(j) == xpffLog[j].out # <<>>

\* The nonce a header starts with.
NonceOf(xpffHex) == Subarray(FromHex(xpffHex), 0, NonceLen)

\* C18: any two fingerprint encryptions, even of the same payload under the
\* same session identifier, use different nonces and return different
\* headers.
C18_FreshNonces ==
  \A i \in 1..Len(xpffLog), j \in 1..Len(xpffLog) :
    (i # j /\ Encrypted(i) /\ Encrypted(j))
    => /\ NonceOf(xpffLog[i].out) # NonceOf(xpffLog[j].out)
       /\ xpffLog[i].out # xpffLog[j].out

C18_Witness ==
  /\ Len(xpffLog) >= 2
  /\ Encrypted(1) /\ Encrypted(2)
  /\ xpffLog[1].guestId = xpffLog[2].guestId
  /\ xpffLog[1].now = xpffLog[2].now

\* C19: decoding a header with the session identifier it was generated
\* under returns exactly the payload that was encrypted.
C19_RoundTrip ==
  \A j \in 1..Len(xpffLog) :
    (/\ decoded.called
     /\ Encrypted(j)
     /\ decoded.hex = xpffLog[j].out
     /\ decoded.guestId = xpffLog[j].guestId)
    => decoded.out = DecodedText(Payload(xpffLog[j].now))

C19_Witness ==
  \E j \in 1..Len(xpffLog) :
    /\ decoded.called
    /\ Encrypted(j)
    /\ decoded.hex = xpffLog[j].out
    /\ decoded.guestId = xpffLog[j].guestId
    /\ xpffLog[j].now = 2
    /\ ~decoded.out.null

\* The input holds fewer bytes than a nonce and a tag.
ShortInput(xpffHex) == Len(FromHex(xpffHex)) < NonceLen + TagLen

\* C20: a decode of an input shorter than a nonce and a tag returns no
\* plaintext, and its failure is another one than the failure of decoding
\* a whole header under a different session identifier (a format error
\* against an authentication error).
C20_FormatVsAuthentication ==
  (decoded.called /\ ShortInput(decoded.hex))
  => /\ decoded.out.null
     /\ \A j \in 1..Len(xpffLog), g \in DecodeGuests :
          (Encrypted(j) /\ DeriveKey(g) # DeriveKey(xpffLog[j].guestId))
          => DecodeXPFF(xpffLog[j].out, g) # decoded.out

\* C21: in every reply request on the wire, in_reply_to_tweet_id is written
\* in the body as a JSON string (between double quotes) holding exactly the
\* digits that follow /status/ in the target URL.
C21_ReplyIdIsJsonString ==
  \A r \in sent :
    r.op = "reply"
    => LET digits == ExtractTweetId(calls[r.caller].url)
       IN /\ digits # <<>>
          /\ \A i \in 1..Len(digits) : digits[i] \in Digits
          /\ r.replyIdJson = <<"\"">> \o digits \o <<"\"">>

C21_Witness ==
  \E r \in sent :
    /\ r.op = "reply"
    /\ calls[r.caller].url = <<"/status/", "1", "2", "x">>
    /\ r.replyIdJson = <<"\"", "1", "2", "\"">>

\* C22: whatever variant served an answered call, every other variant makes
\* the same outcome of the same response: the same choice between returning
\* and throwing and, when a result is returned, the same success flag.
C22_VariantsAgree ==
  \A c \in Callers :
    (Answered(c) /\ Done(c))
    => \A v \in PipelineVariants :
         LET r == InterpretVariant(v, calls[c].op, calls[c].status,
                                   calls[c].body, calls[c].url)
         IN /\ (r.kind = "return") <=> (calls[c].outcome = "resolved")
            /\ (r.kind = "return" /\ calls[c].outcome = "resolved")
                 => r.value.success = calls[c].result.success

\* A createPost request has finished, by returning or by throwing.
CreatePostFinished(r) ==
  xRequests[r].op = "createPost" /\ xRequests[r].pc = "done"

\* C23: once a createPost has finished, every browser the service launched
\* is either closed or the one browserInstance refers to: none is left
\* running without a reference.
C23_NoOrphanBrowser ==
  (\E r \in XRequestIds : CreatePostFinished(r))
  => \A b \in 1..Len(xBrowsers) : BrowserGone(b) \/ browserInstance = b

\* C28: whenever browserInstance is null, currentSession is null and
\* sessionValid is false.
C28_StateConsistent ==
  browserInstance = 0 => (currentSession = 0 /\ sessionValid = FALSE)

\* The header is exactly 'Bearer ' followed by the configured API_TOKEN.
ExactBearer(header) ==
  header.present /\ header.text = <<"Bearer", " ">> \o ApiToken

\* C24: a request reaches a handler under /api only if its Authorization
\* header is exactly 'Bearer ' followed by the configured token; a request
\* without a Bearer header is answered 401 and one with another token 403,
\* and neither reaches the handler.
C24_OnlyExactBearer ==
  \A i \in 1..Len(apiRequests) :
    LET q == apiRequests[i]
    IN /\ q.handled => ExactBearer(q.header)
       /\ ~ExactBearer(q.header)
            => /\ ~q.handled
               /\ q.status = IF q.header.present /\ Len(q.header.text) >= 2
                                 /\ q.header.text[1] = "Bearer"
                                 /\ q.header.text[2] = " "
                              THEN 403 ELSE 401

\* C25: a loginToX call navigates to the login page at most MaxRetries
\* times, each delay between two attempts is longer than the one before,
\* and after MaxRetries failed attempts it navigates no more and has
\* returned false.
C25_BoundedNavigation ==
  /\ loginNav.gotos <= MaxRetries
  /\ Len(loginNav.delays) < MaxRetries
  /\ \A i \in 1..Len(loginNav.delays) :
       /\ loginNav.delays[i] > 0
       /\ i > 1 => loginNav.delays[i] > loginNav.delays[i - 1]
  /\ (loginNav.gotos = MaxRetries /\ ~loginNav.success)
       => /\ loginNav.pc = "done"
          /\ loginNav.result = FALSE
          /\ ~ENABLED LoginNavigate(TRUE)
          /\ ~ENABLED LoginNavigate(FALSE)

C25_Witness ==
  /\ loginNav.pc = "done"
  /\ loginNav.gotos = 3
  /\ ~loginNav.success
  /\ loginNav.delays = <<2000, 4000>>
  /\ loginNav.result = FALSE

\* C26: a result of the route-wired createDirectPost or replyDirectToPost
\* with success = false carries no created-resource identifier: its tweetId
\* (replyTweetId) is null.
C26_FailureCarriesNoId ==
  \A c \in Callers :
    ( /\ RouteWired(c)
      /\ calls[c].outcome = "resolved"
      /\ calls[c].result.success = FALSE )
    => ResultId(calls[c].result) = NULL

\* The handler has answered after the direct function settled.
AnsweredAfterCall(c) == routeAnswers[c] # NoAnswer /\ calls[c].outcome # "none"

\* C27: a direct result with success = false is never reported to the HTTP
\* client as a success: a failure result is answered 400 with status
\* 'error', a rejection 500, and 200 with status 'success' is answered only
\* for a result with success = true.
C27_FailureNeverReportedAsSuccess ==
  \A c \in Callers :
    AnsweredAfterCall(c) =>
      /\ (calls[c].outcome = "resolved" /\ ~calls[c].result.success)
           => routeAnswers[c].http = 400 /\ routeAnswers[c].status = "error"
      /\ calls[c].outcome = "rejected" => routeAnswers[c].http = 500
      /\ (routeAnswers[c].http = 200 /\ routeAnswers[c].status = "success")
           => calls[c].outcome = "resolved" /\ calls[c].result.success

\* The same, for the /direct/post and /direct/reply routes alone.
C27_DirectRoutesOnly ==
  \A c \in Callers :
    (AnsweredAfterCall(c) /\ ~LegacyRoute(c)) =>
      /\ (calls[c].outcome = "resolved" /\ ~calls[c].result.success)
           => routeAnswers[c].http = 400 /\ routeAnswers[c].status = "error"
      /\ calls[c].outcome = "rejected" => routeAnswers[c].http = 500
      /\ (routeAnswers[c].http = 200 /\ routeAnswers[c].status = "success")
           => calls[c].outcome = "resolved" /\ calls[c].result.success

\* The cookies the loop of the running function waits for are held.
RequiredSeen ==
  /\ Truthy(poll.authToken)
  /\ poll.fn = "manualLogin" => Truthy(poll.guestId)

\* C29: the polling loops of manualLogin and getAuthToken always end: the
\* cookie jar is polled at most 120 times, 5 seconds apart, the loop is left
\* as soon as the required cookies have been seen (the auth token, and for
\* manualLogin the guest id too), and a call that reached the bound without
\* them returns success = false.
C29_PollingTerminates ==
  /\ [](/\ poll.polls <= 120
        /\ poll.pc \in {"polling", "after"} => poll.waited = 5000 * poll.polls
        /\ (poll.pc = "polling" /\ poll.polls = 120)
             => ~ENABLED (\E jar \in CookieJars : PollTurn(jar))
        /\ poll.pc = "polling" => ~RequiredSeen
        /\ (poll.pc = "done" /\ poll.polls = 120 /\ ~RequiredSeen)
             => poll.success = FALSE)
  /\ (poll.pc = "polling" ~> poll.pc = "done")

C29_Witness ==
  /\ poll.pc = "done"
  /\ poll.fn = "manualLogin"
  /\ poll.polls = 120
  /\ poll.authToken = "abc"
  /\ poll.guestId = NULL
  /\ poll.success = FALSE

\* The last successful saveSession is less than 24 hours old and no
\* clearSession succeeded after it.
SavedLessThanADayAgo ==
  /\ sessionStore.saved.any
  /\ ~sessionStore.cleared
  /\ sessionStore.now - sessionStore.saved.at < 24 * 60 * 60 * 1000

\* The step is a getSession call (the clock does not move during a call).
GetSessionReturned ==
  sessionStore'.lastOp = "get" /\ sessionStore'.now = sessionStore.now

\* C30: getSession returns the data of the most recent saveSession if and
\* only if that save is less than 24 hours old and no clearSession happened
\* since; in every other case it returns null.
C30_GetSessionFreshOnly ==
  [][GetSessionReturned
       => sessionStore'.returned =
            IF SavedLessThanADayAgo THEN sessionStore.saved.data ELSE NULL]_vars

\* The same with "at most 24 hours old".
C30_GetSessionUpToADay ==
  [][GetSessionReturned
       => sessionStore'.returned =
            IF /\ sessionStore.saved.any
               /\ ~sessionStore.cleared
               /\ sessionStore.now - sessionStore.saved.at <= 24 * 60 * 60 * 1000
            THEN sessionStore.saved.data ELSE NULL]_vars

====
